---- MODULE Spec2Model ----
(***************************************************************************)
(* Max-Cut demo programs: max_cut_qubo.py, max_cut_ising.py and max_cut.py.*)
(* Each program builds a graph G from an edge list, derives a QUBO or an   *)
(* Ising model from G, hands the model to a sampler, decodes the best      *)
(* sample into two node lists and (except max_cut_ising.py) counts the cut *)
(* edges.  The sampler is external: it is modelled as returning any        *)
(* assignment over the model's variables, possibly leaving some out.       *)
(*                                                                         *)
(* Python dicts are functions, Python lists are sequences.  An uncaught    *)
(* exception ends the run (a pc starting with "failed") with err naming    *)
(* the exception.                                                          *)
(* The Ising coefficients are multiples of 1/4; h and J hold them in       *)
(* quarter units (the stored integer is four times the Python float).      *)
(***************************************************************************)
EXTENDS Integers, Sequences, FiniteSets, TLC

VARIABLES prog, argv, formulation, nodes, edges, G, d, Q, bqm, h, J,
          sample, set_1, set_2, max_cuts, pc, err

vars == <<prog, argv, formulation, nodes, edges, G, d, Q, bqm, h, J,
          sample, set_1, set_2, max_cuts, pc, err>>

\* ---- bounds of the explored inputs ----
MaxNode == 2
MaxEdges == 2
MaxMissing == 1

\* ---- small helpers for dicts and lists ----
Labels == 0..MaxNode

EmptyDict == [x \in {} |-> 0]

Put(f, k, v) == [x \in (DOMAIN f) \cup {k} |-> IF x = k THEN v ELSE f[x]]

InList(x, s) == \E k \in 1..Len(s) : s[k] = x

ListSet(s) == {s[k] : k \in 1..Len(s)}

fromkeys(keys, v) == [x \in ListSet(keys) |-> v]

range(n) == [k \in 1..n |-> k - 1]

\* ---- networkx.Graph as used by create_graph ----
EmptyGraph == [node |-> <<>>, adj |-> EmptyDict]

add_node(g, n) ==
    IF n \in DOMAIN g.adj THEN g
    ELSE [node |-> Append(g.node, n), adj |-> Put(g.adj, n, <<>>)]

add_nbr(g, u, v) ==
    [g EXCEPT !.adj[u] = IF InList(v, @) THEN @ ELSE Append(@, v)]

add_edge(g, u, v) == add_nbr(add_nbr(add_node(add_node(g, u), v), u, v), v, u)

RECURSIVE add_edges_from(_, _, _)
add_edges_from(g, es, k) ==
    IF k > Len(es) THEN g
    ELSE add_edges_from(add_edge(g, es[k][1], es[k][2]), es, k + 1)

create_graph(es) == add_edges_from(EmptyGraph, es, 1)

\* G.nodes: the nodes in insertion order
G_nodes(g) == g.node

\* the edges G.edges reports while visiting node number k: one per
\* neighbour that has not itself been visited before
edges_at(g, k) ==
    LET n == g.node[k]
        seen == {g.node[m] : m \in 1..(k - 1)}
        nbrs == SelectSeq(g.adj[n], LAMBDA nbr : nbr \notin seen)
    IN  [m \in 1..Len(nbrs) |-> <<n, nbrs[m]>>]

RECURSIVE edge_view(_, _)
edge_view(g, k) ==
    IF k > Len(g.node) THEN <<>>
    ELSE edges_at(g, k) \o edge_view(g, k + 1)

\* G.edges: every edge once, oriented from the endpoint visited first
G_edges(g) == edge_view(g, 1)

\* ---- max_cut_qubo.py: get_qubo(nodes, edges) ----
\* "if i in d: d[i] += 1"
inc_if_in(dd, i) == IF i \in DOMAIN dd THEN [dd EXCEPT ![i] = @ + 1] ELSE dd

\* the pass with "d[j] += 1" left out
qubo_edge_step_skip_j(st, e) ==
    [Q |-> Put(st.Q, e, 2),
     d |-> inc_if_in(st.d, e[1])]

\* one pass of the loop over G.edges: the quadratic term and both degrees
qubo_edge_step(st, e) ==
    [Q |-> Put(st.Q, e, 2),
     d |-> inc_if_in(inc_if_in(st.d, e[1]), e[2])]

RECURSIVE qubo_edge_loop(_, _, _)
qubo_edge_loop(E, k, st) ==
    IF k > Len(E) THEN st
    ELSE qubo_edge_loop(E, k + 1, qubo_edge_step(st, E[k]))

\* the linear term with the sign lost
linear_term_unsigned(dd, i) == dd[i]

\* "Q[(i, i)] = (-1 * d[i])"
linear_term(dd, i) == -1 * dd[i]

\* the loop over G.nodes; d[i] raises KeyError for a node d does not hold
RECURSIVE qubo_node_loop(_, _, _, _)
qubo_node_loop(V, k, QQ, dd) ==
    IF k > Len(V) THEN [err |-> "none", Q |-> QQ]
    ELSE IF V[k] \notin DOMAIN dd THEN [err |-> "KeyError", Q |-> EmptyDict]
    ELSE qubo_node_loop(V, k + 1, Put(QQ, <<V[k], V[k]>>, linear_term(dd, V[k])), dd)

\* the degree dict d as get_qubo holds it after the loop over G.edges
qubo_d(ns, g) ==
    qubo_edge_loop(G_edges(g), 1, [Q |-> EmptyDict, d |-> fromkeys(ns, 0)]).d

get_qubo(ns, g) ==
    LET st == qubo_edge_loop(G_edges(g), 1, [Q |-> EmptyDict, d |-> fromkeys(ns, 0)])
    IN  qubo_node_loop(G_nodes(g), 1, st.Q, st.d)

\* ---- max_cut.py: the degree dict of the main program and get_qubo() ----
RECURSIVE degree_loop(_, _, _)
degree_loop(E, k, dd) ==
    IF k > Len(E) THEN dd
    ELSE degree_loop(E, k + 1, inc_if_in(inc_if_in(dd, E[k][1]), E[k][2]))

degree_dict(g) == degree_loop(G_edges(g), 1, fromkeys(G_nodes(g), 0))

RECURSIVE quadratic_loop(_, _, _)
quadratic_loop(E, k, QQ) ==
    IF k > Len(E) THEN QQ
    ELSE quadratic_loop(E, k + 1, Put(QQ, E[k], 2))

get_qubo_main(g, dd) ==
    qubo_node_loop(G_nodes(g), 1, quadratic_loop(G_edges(g), 1, EmptyDict), dd)

\* ---- max_cut_ising.py: get_ising(nodes, edges) ----
gamma == 3

\* "if u in edge_dict: edge_dict[u] = edge_dict[u] + 1 else: edge_dict[u] = 1"
inc_or_one(dd, u) == IF u \in DOMAIN dd THEN [dd EXCEPT ![u] = @ + 1] ELSE Put(dd, u, 1)

\* "J[(u, v)] = gamma / 4", in quarters
coupling == gamma

\* the bias with the factor gamma left out
bias_no_gamma(dd, n) == -2 + dd[n]

\* "h[n] = -1 * (0.5) + (gamma * (edge_dict[n] * 0.25))", in quarters
bias(dd, n) == -2 + gamma * dd[n]

ising_edge_step(st, e) ==
    [J |-> Put(st.J, e, coupling),
     edge_dict |-> inc_or_one(inc_or_one(st.edge_dict, e[1]), e[2])]

RECURSIVE ising_edge_loop(_, _, _)
ising_edge_loop(E, k, st) ==
    IF k > Len(E) THEN st
    ELSE ising_edge_loop(E, k + 1, ising_edge_step(st, E[k]))

RECURSIVE ising_node_loop(_, _, _, _)
ising_node_loop(V, k, hh, dd) ==
    IF k > Len(V) THEN [err |-> "none", h |-> hh]
    ELSE IF V[k] \notin DOMAIN dd THEN [err |-> "KeyError", h |-> EmptyDict]
    ELSE ising_node_loop(V, k + 1, Put(hh, V[k], bias(dd, V[k])), dd)

\* the degree dict edge_dict as get_ising holds it after the loop over G.edges
ising_edge_dict(ns, g) ==
    ising_edge_loop(G_edges(g), 1, [J |-> EmptyDict, edge_dict |-> fromkeys(ns, 0)]).edge_dict

get_ising(ns, g) ==
    LET st == ising_edge_loop(G_edges(g), 1, [J |-> EmptyDict, edge_dict |-> fromkeys(ns, 0)])
        r  == ising_node_loop(G_nodes(g), 1, EmptyDict, st.edge_dict)
    IN  [err |-> r.err, h |-> r.h, J |-> IF r.err = "none" THEN st.J ELSE EmptyDict]

\* ---- max_cut.py: get_ising(), "J[(u, v)] = 0.5" and "h[n] = 0", in quarters ----
RECURSIVE main_J_loop(_, _, _)
main_J_loop(E, k, JJ) ==
    IF k > Len(E) THEN JJ
    ELSE main_J_loop(E, k + 1, Put(JJ, E[k], 2))

RECURSIVE main_h_loop(_, _, _)
main_h_loop(V, k, hh) ==
    IF k > Len(V) THEN hh
    ELSE main_h_loop(V, k + 1, Put(hh, V[k], 0))

get_ising_main(g) ==
    [err |-> "none",
     h |-> main_h_loop(G_nodes(g), 1, EmptyDict),
     J |-> main_J_loop(G_edges(g), 1, EmptyDict)]

\* ---- the sampler (external): sample_set.first.sample ----
\* the variables of the model handed to the sampler are the nodes of G
SpinValues(f) == IF f = "ising" THEN {-1, 1} ELSE {0, 1}

Samples(g, f) ==
    LET V == ListSet(G_nodes(g))
    IN  UNION {[V \ miss -> SpinValues(f)] :
                 miss \in {m \in SUBSET V : Cardinality(m) <= MaxMissing}}

\* ---- decoding: "result = list(sample_set.first.sample[i] for i in ...)" ----
\* the lookup done as sample.get(i, 0): a node without a value reads 0
result_list_default(smp, order) ==
    [err |-> "none",
     result |-> [k \in 1..Len(order) |->
                   IF order[k] \in DOMAIN smp THEN smp[order[k]] ELSE 0]]

\* sample[i] raises for a node the sample does not hold (the KeyError of a
\* mapping lookup)
result_list(smp, order) ==
    IF \E k \in 1..Len(order) : order[k] \notin DOMAIN smp
    THEN [err |-> "KeyError", result |-> <<>>]
    ELSE [err |-> "none", result |-> [k \in 1..Len(order) |-> smp[order[k]]]]

\* "for i in range(len(result))": position k of the sequence is Python's
\* index i = k - 1, and it is the index i that is appended
decode_step(st, result, k) ==
    IF result[k] = 1
    THEN [set_1 |-> Append(st.set_1, k - 1), set_2 |-> st.set_2]
    ELSE [set_1 |-> st.set_1, set_2 |-> Append(st.set_2, k - 1)]

RECURSIVE decode_loop(_, _, _)
decode_loop(result, k, st) ==
    IF k > Len(result) THEN st
    ELSE decode_loop(result, k + 1, decode_step(st, result, k))

decode(result) == decode_loop(result, 1, [set_1 |-> <<>>, set_2 |-> <<>>])

\* ---- "Calculate max_cuts" ----
\* the test without its elif branch
cut_step_one_way(mc, e, s1, s2) ==
    IF InList(e[1], s1) /\ InList(e[2], s2) THEN mc + 1 ELSE mc

cut_step(mc, e, s1, s2) ==
    IF InList(e[1], s1) /\ InList(e[2], s2) THEN mc + 1
    ELSE IF InList(e[2], s1) /\ InList(e[1], s2) THEN mc + 1
    ELSE mc

RECURSIVE cut_loop(_, _, _, _, _)
cut_loop(E, k, mc, s1, s2) ==
    IF k > Len(E) THEN mc
    ELSE cut_loop(E, k + 1, cut_step(mc, E[k], s1, s2), s1, s2)

count_cuts(E, s1, s2) == cut_loop(E, 1, 0, s1, s2)

\* ---- max_cut.py: get_bqm(Q), BinaryQuadraticModel.from_qubo(Q) ----
\* the diagonal of Q becomes the linear biases, the rest the quadratic ones
get_bqm(QQ) ==
    LET V == {k[1] : k \in DOMAIN QQ} \cup {k[2] : k \in DOMAIN QQ}
    IN  [linear |-> [n \in V |-> IF <<n, n>> \in DOMAIN QQ THEN QQ[<<n, n>>] ELSE 0],
         quadratic |-> [k \in {c \in DOMAIN QQ : c[1] # c[2]} |-> QQ[k]],
         offset |-> 0,
         vartype |-> "BINARY"]

NoBqm == [linear |-> EmptyDict, quadratic |-> EmptyDict, offset |-> 0, vartype |-> "BINARY"]

\* ---- the inputs ----
\* any pair of labels may be written as an edge, in any order, more than once
EdgeUniverse == Labels \X Labels

EdgeLists == UNION {[1..n -> EdgeUniverse] : n \in 0..MaxEdges}

reversed(s) == [k \in 1..Len(s) |-> s[Len(s) + 1 - k]]

\* node lists as the programs write them, list(range(n)), and the same
\* labels listed downwards
NodeLists == {range(n) : n \in 0..(MaxNode + 1)} \cup {reversed(range(n)) : n \in 0..(MaxNode + 1)}

\* the graphs written in the sources: the commented test graphs 0 and 1, and
\* the ring of the 24-node graph on 3 and on 4 nodes, closed by (0, n-1) as
\* the sources write it, once with the chord-like edges first as in
\* max_cut_ising.py, and the last ring edge of that graph alone
TestGraph0 == [nodes |-> range(3), edges |-> <<(<<0, 1>>), (<<1, 2>>)>>]
TestGraph1 ==
    [nodes |-> range(5),
     edges |-> <<(<<0, 1>>), (<<0, 2>>), (<<1, 2>>), (<<1, 3>>), (<<2, 4>>), (<<3, 4>>)>>]
Ring3 == [nodes |-> range(3), edges |-> <<(<<0, 1>>), (<<1, 2>>), (<<0, 2>>)>>]
Ring4 == [nodes |-> range(4), edges |-> <<(<<0, 1>>), (<<1, 2>>), (<<2, 3>>), (<<0, 3>>)>>]
HighFirst == [nodes |-> range(4), edges |-> <<(<<2, 3>>), (<<0, 1>>), (<<1, 2>>)>>]
HighPair == [nodes |-> range(4), edges |-> <<(<<2, 3>>)>>]

Fixtures == {TestGraph0, TestGraph1, Ring3, Ring4, HighFirst, HighPair}

GeneralInputs == {[nodes |-> n, edges |-> e] : n \in NodeLists, e \in EdgeLists}

Inputs == GeneralInputs \cup Fixtures

\* sys.argv[1:] of max_cut.py: nothing, a formulation, or another word
Arguments == {<<>>, <<"qubo">>, <<"ising">>, <<"bqm">>, <<"foo">>}

\* the list the decoding step iterates and the list the cuts are counted over
DecodeOrder == IF prog = "max_cut" THEN G_nodes(G) ELSE nodes
CutEdges == IF prog = "max_cut" THEN G_edges(G) ELSE edges

\* ---- the programs ----
\* max_cut_qubo.py and max_cut_ising.py take no argument and build one kind
\* of model; max_cut.py reads the kind from sys.argv and never reads nodes
Init ==
    /\ prog \in {"max_cut_qubo", "max_cut_ising", "max_cut"}
    /\ argv \in Arguments
    /\ prog # "max_cut" => argv = <<>>
    /\ formulation = IF prog = "max_cut_qubo" THEN "qubo"
                     ELSE IF prog = "max_cut_ising" THEN "ising" ELSE ""
    /\ \E in \in Inputs :
          /\ nodes = in.nodes
          /\ edges = in.edges
          /\ prog = "max_cut" => (in \in Fixtures \/ in.nodes = range(MaxNode + 1))
    /\ G = EmptyGraph
    /\ d = EmptyDict
    /\ Q = EmptyDict
    /\ bqm = NoBqm
    /\ h = EmptyDict
    /\ J = EmptyDict
    /\ sample = EmptyDict
    /\ set_1 = <<>>
    /\ set_2 = <<>>
    /\ max_cuts = 0
    /\ pc = "start"
    /\ err = "none"

\* G = create_graph(edges); in max_cut.py, G = nx.Graph(); G.add_edges_from(edges)
CreateGraph ==
    /\ pc = "start"
    /\ G' = create_graph(edges)
    /\ pc' = IF prog = "max_cut" THEN "graph" ELSE "build"
    /\ UNCHANGED <<prog, argv, formulation, nodes, edges, d, Q, bqm, h, J,
                   sample, set_1, set_2, max_cuts, err>>

\* max_cut.py: "Create dictionary for edges per node"
DegreeDict ==
    /\ pc = "graph"
    /\ d' = degree_dict(G)
    /\ pc' = "degrees"
    /\ UNCHANGED <<prog, argv, formulation, nodes, edges, G, Q, bqm, h, J,
                   sample, set_1, set_2, max_cuts, err>>

\* max_cut.py: "formulation = sys.argv[1]"; IndexError without an argument
ReadFormulation ==
    /\ pc = "degrees"
    /\ IF Len(argv) = 0
       THEN /\ err' = "IndexError"
            /\ pc' = "failed_args"
            /\ UNCHANGED formulation
       ELSE /\ formulation' = argv[1]
            /\ pc' = "build"
            /\ UNCHANGED err
    /\ UNCHANGED <<prog, argv, nodes, edges, G, d, Q, bqm, h, J,
                   sample, set_1, set_2, max_cuts>>

\* Q = get_qubo(nodes, edges), or Q = get_qubo() in max_cut.py ("qubo", "bqm")
GetQubo ==
    /\ pc = "build"
    /\ formulation \in {"qubo", "bqm"}
    /\ LET r == IF prog = "max_cut" THEN get_qubo_main(G, d) ELSE get_qubo(nodes, G)
       IN  /\ Q' = r.Q
           /\ err' = r.err
           /\ pc' = IF r.err = "none" THEN "model" ELSE "failed_build"
    /\ UNCHANGED <<prog, argv, formulation, nodes, edges, G, d, bqm, h, J,
                   sample, set_1, set_2, max_cuts>>

\* max_cut.py, "bqm": bqm = get_bqm(Q)
GetBqm ==
    /\ pc = "model"
    /\ formulation = "bqm"
    /\ bqm' = get_bqm(Q)
    /\ pc' = "bqm"
    /\ UNCHANGED <<prog, argv, formulation, nodes, edges, G, d, Q, h, J,
                   sample, set_1, set_2, max_cuts, err>>

\* h, J = get_ising(nodes, edges), or h, J = get_ising() in max_cut.py
GetIsing ==
    /\ pc = "build"
    /\ formulation = "ising"
    /\ LET r == IF prog = "max_cut" THEN get_ising_main(G) ELSE get_ising(nodes, G)
       IN  /\ h' = r.h
           /\ J' = r.J
           /\ err' = r.err
           /\ pc' = IF r.err = "none" THEN "model" ELSE "failed_build"
    /\ UNCHANGED <<prog, argv, formulation, nodes, edges, G, d, Q, bqm,
                   sample, set_1, set_2, max_cuts>>

\* max_cut.py with a word that is no formulation: no branch runs, the
\* sampler is not called and sample_set stays unbound
NoBranch ==
    /\ pc = "build"
    /\ formulation \notin {"qubo", "ising", "bqm"}
    /\ pc' = "unsampled"
    /\ UNCHANGED <<prog, argv, formulation, nodes, edges, G, d, Q, bqm, h, J,
                   sample, set_1, set_2, max_cuts, err>>

\* sample_set = sampler.sample_qubo(Q, ...), sampler.sample_ising(h, J, ...)
\* or sampler.sample(bqm)
Solve ==
    /\ \/ pc = "model" /\ formulation # "bqm"
       \/ pc = "bqm"
    /\ sample' \in Samples(G, formulation)
    /\ pc' = "sampled"
    /\ UNCHANGED <<prog, argv, formulation, nodes, edges, G, d, Q, bqm, h, J,
                   set_1, set_2, max_cuts, err>>

\* "Determine the resulting sets". The generator reads sample_set once per
\* node of the decoded list: an unbound sample_set raises NameError at the
\* first node, and is never read when there is no node
Decode ==
    /\ pc \in {"sampled", "unsampled"}
    /\ IF pc = "unsampled" /\ DecodeOrder # <<>>
       THEN /\ err' = "NameError"
            /\ pc' = "failed_name"
            /\ UNCHANGED <<set_1, set_2>>
       ELSE LET r == result_list(sample, DecodeOrder)
                st == decode(r.result)
            IN  /\ err' = r.err
                /\ set_1' = st.set_1
                /\ set_2' = st.set_2
                /\ pc' = IF r.err = "none" THEN "decoded" ELSE "failed_decode"
    /\ UNCHANGED <<prog, argv, formulation, nodes, edges, G, d, Q, bqm, h, J,
                   sample, max_cuts>>

\* "Calculate max_cuts" (max_cut_ising.py prints the sets and counts nothing)
CountCuts ==
    /\ pc = "decoded"
    /\ prog # "max_cut_ising"
    /\ max_cuts' = count_cuts(CutEdges, set_1, set_2)
    /\ pc' = "counted"
    /\ UNCHANGED <<prog, argv, formulation, nodes, edges, G, d, Q, bqm, h, J,
                   sample, set_1, set_2, err>>

Next ==
    \/ CreateGraph
    \/ DegreeDict
    \/ ReadFormulation
    \/ GetQubo
    \/ GetBqm
    \/ GetIsing
    \/ NoBranch
    \/ Solve
    \/ Decode
    \/ CountCuts

Spec == Init /\ [][Next]_vars

\* ---- the graph the inputs describe, independently of networkx ----
\* V: the endpoints of the edge list; E: its edges as unordered pairs
GraphNodes == UNION {{edges[k][1], edges[k][2]} : k \in 1..Len(edges)}
GraphEdges == {{edges[k][1], edges[k][2]} : k \in 1..Len(edges)}

\* the edge list writes no self-loop (the graphs of the specification have none)
NoSelfLoop == \A k \in 1..Len(edges) : edges[k][1] # edges[k][2]

\* deg(i): the number of edges of E incident to i
Deg(i) == Cardinality({e \in GraphEdges : i \in e})

\* the node list handed to a builder holds every endpoint (max_cut.py takes
\* its nodes from G itself)
Covers == prog = "max_cut" \/ GraphNodes \subseteq ListSet(nodes)

DiagonalKeys == {<<i, i>> : i \in GraphNodes}
KeysOfEdge(e) == {k \in e \X e : {k[1], k[2]} = e}
EdgeKeys == UNION {KeysOfEdge(e) : e \in GraphEdges}

\* a dict keyed by edges holds exactly one key per edge and nothing else
OneKeyPerEdge(f) ==
    /\ DOMAIN f \subseteq EdgeKeys
    /\ \A e \in GraphEdges : Cardinality(DOMAIN f \cap KeysOfEdge(e)) = 1

Assignments == [GraphNodes -> {0, 1}]

\* the number of edges whose endpoints x separates
CutOf(x) == Cardinality({e \in GraphEdges : \E a, b \in e : x[a] # x[b]})

MaxCut == CHOOSE m \in 0..Len(edges) :
            /\ \E x \in Assignments : CutOf(x) = m
            /\ \A x \in Assignments : CutOf(x) <= m

\* the QUBO objective: the sum over all keys (i, j) of Q[(i, j)] * x_i * x_j
RECURSIVE qubo_sum(_, _, _)
qubo_sum(keys, QQ, x) ==
    IF keys = {} THEN 0
    ELSE LET k == CHOOSE c \in keys : TRUE
         IN  QQ[k] * x[k[1]] * x[k[2]] + qubo_sum(keys \ {k}, QQ, x)

Objective(QQ, x) == qubo_sum(DOMAIN QQ, QQ, x)

\* the Ising energy in quarters: sum of J[(u, v)] * s_u * s_v plus sum of h[n] * s_n
RECURSIVE coupling_sum(_, _, _)
coupling_sum(keys, JJ, sp) ==
    IF keys = {} THEN 0
    ELSE LET k == CHOOSE c \in keys : TRUE
         IN  JJ[k] * sp[k[1]] * sp[k[2]] + coupling_sum(keys \ {k}, JJ, sp)

RECURSIVE bias_sum(_, _, _)
bias_sum(keys, hh, sp) ==
    IF keys = {} THEN 0
    ELSE LET n == CHOOSE c \in keys : TRUE
         IN  hh[n] * sp[n] + bias_sum(keys \ {n}, hh, sp)

Energy(hh, JJ, sp) == coupling_sum(DOMAIN JJ, JJ, sp) + bias_sum(DOMAIN hh, hh, sp)

\* spin +1 <-> bit 1, spin -1 <-> bit 0
SpinOf(x) == [n \in DOMAIN x |-> 2 * x[n] - 1]

QuboMinimizers(QQ) ==
    {x \in Assignments : \A y \in Assignments : Objective(QQ, x) <= Objective(QQ, y)}

IsingMinimizers(hh, JJ) ==
    {x \in Assignments :
        \A y \in Assignments : Energy(hh, JJ, SpinOf(x)) <= Energy(hh, JJ, SpinOf(y))}

QuboBuilderRan == formulation \in {"qubo", "bqm"} /\ pc \in {"model", "failed_build"}
IsingBuilderRan == formulation = "ising" /\ pc \in {"model", "failed_build"}

\* ---- C1 ----
\* C1: for every graph whose nodes the builder is given, get_qubo returns Q
\* with exactly one diagonal key per node and one off-diagonal key per edge,
\* Q = 2 on every edge key and Q[(i, i)] = -deg(i).
C1_QuboShape ==
    (QuboBuilderRan /\ Covers /\ NoSelfLoop) =>
        /\ pc = "model"
        /\ DOMAIN Q \subseteq DiagonalKeys \cup EdgeKeys
        /\ DiagonalKeys \subseteq DOMAIN Q
        /\ OneKeyPerEdge([k \in DOMAIN Q \ DiagonalKeys |-> Q[k]])
        /\ \A k \in DOMAIN Q \ DiagonalKeys : Q[k] = 2
        /\ \A i \in GraphNodes : Q[<<i, i>>] = -Deg(i)

\* a QUBO was built for a graph with a node of degree 2 or more, and one of
\* its edge keys is the reverse of the pair written in the edge list
C1_Witness ==
    /\ pc = "model"
    /\ prog = "max_cut_qubo"
    /\ Len(edges) >= 3
    /\ NoSelfLoop
    /\ \E i \in GraphNodes : Deg(i) >= 2
    /\ \E k \in 1..Len(edges) : <<edges[k][2], edges[k][1]>> \in DOMAIN Q

\* ---- C2 ----
\* C2: the QUBO objective of every 0/1 assignment is minus its cut count, so
\* the minimizers of the objective are the assignments of maximum cut; on the
\* triangle the minimum is -2.
C2_ObjectiveIsMinusCut ==
    (formulation \in {"qubo", "bqm"} /\ pc = "model" /\ NoSelfLoop) =>
        /\ \A x \in Assignments : Objective(Q, x) = -CutOf(x)
        /\ QuboMinimizers(Q) = {x \in Assignments : CutOf(x) = MaxCut}
        /\ GraphEdges = {{0, 1}, {1, 2}, {0, 2}} =>
              /\ MaxCut = 2
              /\ \A x \in QuboMinimizers(Q) : Objective(Q, x) = -2

\* the QUBO of the triangle was built
C2_Witness ==
    /\ formulation \in {"qubo", "bqm"}
    /\ pc = "model"
    /\ edges = Ring3.edges
    /\ \E x \in QuboMinimizers(Q) : Objective(Q, x) = -2 /\ CutOf(x) = 2

\* ---- C3 ----
\* C3 as stated: in max_cut_ising.py and in max_cut.py, get_ising returns J
\* keyed by exactly the edges and h keyed by exactly the nodes, and for a
\* penalty weight g every J is g/4 and every h[n] is -0.5 + g*deg(n)*0.25
\* (in quarters: J = g and h[n] = g*deg(n) - 2).
C3_AsStated ==
    (IsingBuilderRan /\ NoSelfLoop) =>
        /\ pc = "model"
        /\ OneKeyPerEdge(J)
        /\ DOMAIN h = GraphNodes
        /\ \E g \in 0..(2 * gamma) :
              /\ \A k \in DOMAIN J : J[k] = g
              /\ \A n \in GraphNodes : h[n] = g * Deg(n) - 2

\* C3 amended: both builders key J by exactly the edges and h by exactly the
\* nodes; max_cut_ising.py uses its fixed gamma = 3 (J = gamma/4 and
\* h[n] = -0.5 + gamma*deg(n)*0.25), max_cut.py returns J = 0.5 and h[n] = 0.
C3_IsingCoefficients ==
    (IsingBuilderRan /\ NoSelfLoop) =>
        /\ pc = "model"
        /\ OneKeyPerEdge(J)
        /\ DOMAIN h = GraphNodes
        /\ prog = "max_cut_ising" =>
              /\ \A k \in DOMAIN J : J[k] = gamma
              /\ \A n \in GraphNodes : h[n] = gamma * Deg(n) - 2
        /\ prog = "max_cut" =>
              /\ \A k \in DOMAIN J : J[k] = 2
              /\ \A n \in GraphNodes : h[n] = 0

\* max_cut_ising.py built h and J for a graph with a node of degree 2 or more
\* and an endpoint its node list does not hold
C3_Witness ==
    /\ pc = "model"
    /\ prog = "max_cut_ising"
    /\ NoSelfLoop
    /\ \E n \in GraphNodes : Deg(n) >= 2 /\ h[n] = gamma * Deg(n) - 2
    /\ \E n \in GraphNodes : n \notin ListSet(nodes)
    /\ \E k \in DOMAIN J : J[k] = gamma

\* ---- C4 ----
\* C4: under spin +1 -> bit 1 and spin -1 -> bit 0, the minimizers of the
\* Ising energy built by get_ising (max_cut_ising.py) are exactly the
\* minimizers of the QUBO built by get_qubo (max_cut_qubo.py) for the same
\* graph, and every Ising minimizer is a partition of maximum cut.
C4_IsingEquivalentToQubo ==
    (prog = "max_cut_ising" /\ pc = "model" /\ Covers /\ NoSelfLoop) =>
        /\ IsingMinimizers(h, J) = QuboMinimizers(get_qubo(nodes, G).Q)
        /\ \A x \in IsingMinimizers(h, J) : CutOf(x) = MaxCut

\* ---- C5 ----
\* the nodes of the decoded list, in order, whose sample value is (is not) 1
Ones(order, smp) == SelectSeq(order, LAMBDA n : smp[n] = 1)
Others(order, smp) == SelectSeq(order, LAMBDA n : smp[n] # 1)

\* C5: decoding yields set_1 = the nodes whose value is 1 and set_2 = the
\* remaining nodes, each in node iteration order; the two are disjoint and
\* their union is the node set.
C5_DecodeByLabel ==
    pc = "decoded" =>
        /\ set_1 = Ones(DecodeOrder, sample)
        /\ set_2 = Others(DecodeOrder, sample)
        /\ ListSet(set_1) \cap ListSet(set_2) = {}
        /\ ListSet(set_1) \cup ListSet(set_2) = ListSet(DecodeOrder)

\* ---- C6 ----
\* a pair of endpoints with one in set_1 and the other in set_2
Crosses(e, s1, s2) == \E a, b \in e : a # b /\ InList(a, s1) /\ InList(b, s2)

\* the edges the loop is given: max_cut_qubo.py iterates the list as written
\* (an edge written twice is two edges), max_cut.py iterates the edges of G
CrossingEdges ==
    IF prog = "max_cut"
    THEN Cardinality({e \in GraphEdges : Crosses(e, set_1, set_2)})
    ELSE Cardinality({k \in 1..Len(edges) :
                        Crosses({edges[k][1], edges[k][2]}, set_1, set_2)})

\* C6: the loop ends with max_cuts = the number of edges with one endpoint
\* in set_1 and the other in set_2; the 4-cycle split {0,2} | {1,3} gives 4.
C6_CutCount ==
    pc = "counted" =>
        /\ max_cuts = CrossingEdges
        /\ (edges = Ring4.edges /\ set_1 = <<0, 2>> /\ set_2 = <<1, 3>>) => max_cuts = 4

\* the cuts of the 4-cycle were counted for {0,2} | {1,3}
C6_Witness ==
    /\ pc = "counted"
    /\ edges = Ring4.edges
    /\ set_1 = <<0, 2>>
    /\ set_2 = <<1, 3>>
    /\ max_cuts = 4

\* ---- C7 ----
DecodeRan == pc \in {"decoded", "counted", "failed_decode"}

\* C7: when the sample has no value for some node of the graph that the
\* decoding iterates, decoding ends in the KeyError and leaves no partition
\* and no cut count.
C7_MissingAssignment ==
    (/\ DecodeRan
     /\ GraphNodes \subseteq ListSet(DecodeOrder)
     /\ \E n \in GraphNodes : n \notin DOMAIN sample) =>
        /\ pc = "failed_decode"
        /\ err = "KeyError"
        /\ set_1 = <<>>
        /\ set_2 = <<>>
        /\ max_cuts = 0

\* decoding failed on a sample that leaves out one node of a graph
C7_Witness ==
    /\ pc = "failed_decode"
    /\ err = "KeyError"
    /\ Len(edges) >= 2
    /\ \E n \in GraphNodes : n \notin DOMAIN sample
    /\ \E n \in GraphNodes : n \in DOMAIN sample

\* ---- C8 ----
\* C8: a node of the node list that is on no edge still gets Q[(i, i)] = 0.
C8_IsolatedNodeDiagonal ==
    (formulation \in {"qubo", "bqm"} /\ pc = "model") =>
        \A i \in ListSet(nodes) :
            Deg(i) = 0 => (<<i, i>> \in DOMAIN Q /\ Q[<<i, i>>] = 0)

\* ---- C9 ----
Absent(n) == ~InList(n, set_1) /\ ~InList(n, set_2)

\* C9: cut counting does not finish with a count when an edge has both
\* endpoints absent from set_1 and from set_2.
C9_RaisesOnUncoveredEdge ==
    (pc = "counted" /\ NoSelfLoop) => ~(\E e \in GraphEdges : \A n \in e : Absent(n))

\* ---- C10 ----
\* C10: the degree counts of the Ising builder (edge_dict) and of the QUBO
\* builder (d) agree for every node and equal the number of incident edges,
\* also for an endpoint that the node list does not hold, and the QUBO
\* builder does not fail on it.
C10_DegreeCountsAgree ==
    (prog = "max_cut_qubo" /\ QuboBuilderRan /\ NoSelfLoop) =>
        /\ pc = "model"
        /\ \A n \in GraphNodes :
              /\ n \in DOMAIN ising_edge_dict(nodes, G)
              /\ n \in DOMAIN qubo_d(nodes, G)
              /\ ising_edge_dict(nodes, G)[n] = Deg(n)
              /\ qubo_d(nodes, G)[n] = Deg(n)

====
